---- MODULE Spec2Model ----
(***************************************************************************)
(* Cloudflare status monitor (src/main.go): the Service that polls the     *)
(* incident list, reconciles it against the in-memory snapshot             *)
(* (lastIncidents), sends DingTalk notifications and a daily digest.       *)
(*                                                                         *)
(* Time is counted in whole hours.  The calendar of the model is scaled:   *)
(* a day has HoursPerDay hours and a month DaysPerMonth days, so that the  *)
(* hour of day, the day of month and the calendar date of time.Time can    *)
(* all be distinguished within a short run.  All times are UTC.            *)
(***************************************************************************)
EXTENDS Integers, Sequences, FiniteSets, TLC

VARIABLES
  pc,                 \* where main() stands: "load", "exit", "fetch", "notify", "returned", "report"
                      \* ("serve" when other goroutines make the calls)
  boot,               \* TRUE until main() has entered the ticker loop (lines 469-480)
  config,             \* Service.config, as loadConfig returned it
  lastIncidents,      \* Service.lastIncidents: id -> Incident
  lastIncidentsIsNil, \* Service.lastIncidents == nil
  lastReportTime,     \* Service.lastReportTime (ZeroTime: never set)
  mutex,              \* Service.mutex: [writer, readers]
  now,                \* the wall clock read by time.Now()
  fetched,            \* the sorted list handed to the checkForChanges call of this cycle
  prior,              \* lastIncidents as that call found it
  changes,            \* the sections of the notification built by that call
  event,              \* what the fetch of this cycle did: "none", "fetchFailed", "init", "delta"
  inflight,           \* the notification being sent: "none", "startup", "update", "daily"
  digest,             \* the incidents written into the daily report being sent
  lastSend,           \* the error of the send that just returned: "none", "ok", "err"
  calls,              \* the Service methods running in goroutines other than main()
  reportedAt,         \* the time at which the last sendDailyReport was called (ZeroTime: never)
  file                \* the configuration file as loadConfig scanned it

vars == <<pc, boot, config, lastIncidents, lastIncidentsIsNil, lastReportTime, mutex, now,
          fetched, prior, changes, event, inflight, digest, lastSend, calls, reportedAt, file>>

----------------------------------------------------------------------------
(* Bounds of the model *)

\* the largest MAX_INCIDENTS a configuration file of the model sets
MaxCap == 2

\* the scaled calendar
HoursPerDay == 2
DaysPerMonth == 2

\* the clock stops advancing at this hour in the reconciliation runs
MaxTime == 2

\* the clock stops advancing this many hours after a full month in the calendar runs
MaxOver == 2

----------------------------------------------------------------------------
(* Program constants *)

\* time.Now().AddDate(0, 0, -3)
WindowDays == 3

\* the zero time.Time, before every clock value
ZeroTime == -1000

----------------------------------------------------------------------------
(* time.Time *)

Hour(t) == t % HoursPerDay
Date(t) == t \div HoursPerDay
Day(t) == (Date(t) % DaysPerMonth) + 1
After(t, u) == t > u
IsZero(t) == t = ZeroTime
AddDays(t, d) == t + d * HoursPerDay

\* the first hour of the second month
MonthLater == HoursPerDay * DaysPerMonth

----------------------------------------------------------------------------
(* Inputs: the configuration files *)

Absent == [kind |-> "absent"]
Garbage == [kind |-> "garbage"]
Number(n) == [kind |-> "int", n |-> n]

File(interval, hour, max, token, secret) ==
  [interval |-> interval, hour |-> hour, max |-> max, token |-> token, secret |-> secret]

\* files that differ in MAX_INCIDENTS only; 0 is refused
CapFiles == {File(Number(5), Number(1), Number(n), "token", "secret") : n \in 0..MaxCap}

\* files that differ in DAILY_REPORT_UTC_HOUR only; HoursPerDay is refused
HourFiles == {File(Number(5), Number(h), Number(1), "token", "secret") : h \in 0..HoursPerDay}

\* what the line of a numeric option may hold: no line, no number, the numbers
\* around the bounds of the option
IntervalVals == {Absent, Garbage, Number(0), Number(5)}
HourVals == {Absent, Garbage} \cup {Number(h) : h \in {-1, 0, HoursPerDay - 1, HoursPerDay}}
MaxVals == {Absent, Garbage, Number(0), Number(1)}

\* every file over these lines; a string option without a line stays ""
AnyFiles ==
  {File(i, h, m, t, k) : i \in IntervalVals, h \in HourVals, m \in MaxVals,
                         t \in {"", "token"}, k \in {"", "secret"}}

----------------------------------------------------------------------------
(* Inputs: the incident lists the status API may answer with *)

NumIds == MaxCap + 1
Ids == 1..NumIds

\* creation times that leave the three-day window at hours 1 and 2
CreatedVals == {AddDays(0, 0 - WindowDays) + d : d \in 1..2}
UpdatedVals == {0, 1}
StatusVals == {"investigating", "resolved"}

Incident(i, c, u, s) == [id |-> i, created |-> c, updated |-> u, status |-> s]

IncidentsOver(ids, cs, us, ss) ==
  {Incident(i, c, u, s) : i \in ids, c \in cs, u \in us, s \in ss}

\* the lists over a set of incidents: identifiers unique within a list (the
\* upstream contract), written in increasing identifier order
ResponsesOver(incs, maxLen) ==
  {r \in UNION {[1..n -> incs] : n \in 0..maxLen} :
     \A i, j \in 1..Len(r) : i < j => r[i].id < r[j].id}

\* one incident more than the largest MAX_INCIDENTS; they differ in their
\* creation time only
Responses ==
  ResponsesOver(IncidentsOver(Ids, CreatedVals, {0}, {"investigating"}), NumIds)

\* two incidents, every field varies
DeepResponses ==
  ResponsesOver(IncidentsOver(1..2, CreatedVals, UpdatedVals, StatusVals), 2)

\* the calendar runs: one incident
DayResponses ==
  ResponsesOver(IncidentsOver({1}, CreatedVals, {0}, {"investigating"}), 1)

----------------------------------------------------------------------------
(* loadConfig *)

Atoi(v) == IF v.kind = "int" THEN [err |-> FALSE, n |-> v.n] ELSE [err |-> TRUE, n |-> 0]

\* lines 105-117: a numeric option is assigned only when its line is there and parses
IntOption(v) == IF v.kind # "absent" /\ ~Atoi(v).err THEN Atoi(v).n ELSE 0

ParseConfig(f) ==
  [CheckIntervalMinutes |-> IntOption(f.interval),
   DailyReportUTCHour   |-> IntOption(f.hour),
   MaxIncidents         |-> IntOption(f.max),
   DingtalkWebhookToken |-> f.token,
   DingtalkSecret       |-> f.secret]

\* lines 129-144; the hour of the scaled day ranges over 0..HoursPerDay-1
ConfigError(c) ==
  \/ c.CheckIntervalMinutes <= 0
  \/ c.DailyReportUTCHour < 0 \/ c.DailyReportUTCHour > HoursPerDay - 1
  \/ c.MaxIncidents <= 0
  \/ c.DingtalkWebhookToken = ""
  \/ c.DingtalkSecret = ""

\* nothing scanned
NoFile == File(Absent, Absent, Absent, "", "")

ZeroConfig == ParseConfig(NoFile)

----------------------------------------------------------------------------
(* fetchAndProcessIncidents: the sort *)

NewestFirst(s) == \A i, j \in 1..Len(s) : i < j => ~After(s[j].created, s[i].created)

Range(s) == {s[i] : i \in 1..Len(s)}

\* sort.Slice is not stable: every newest-first arrangement of the response
SortSlice(r) ==
  {s \in [1..Len(r) -> Range(r)] : Range(s) = Range(r) /\ NewestFirst(s)}

----------------------------------------------------------------------------
(* checkForChanges *)

\* a checkForChanges that hands the whole list on
TruncateNothing(incidents, max) == incidents

Truncate(incidents, max) ==
  IF Len(incidents) > max THEN SubSeq(incidents, 1, max) ELSE incidents

\* a checkForChanges that takes an empty store for a first run
FirstRunIfEmpty(m, isNil) == DOMAIN m = {}

FirstRun(m, isNil) == isNil

\* a map write that merges: a stored entry keeps its status
PutKeepingStatus(m, inc) ==
  [k \in DOMAIN m \cup {inc.id} |->
     IF k = inc.id
       THEN IF k \in DOMAIN m THEN [inc EXCEPT !.status = m[k].status] ELSE inc
       ELSE m[k]]

Put(m, inc) == [k \in DOMAIN m \cup {inc.id} |-> IF k = inc.id THEN inc ELSE m[k]]

\* a first run that adopts only the incidents of the last three days
RECURSIVE AdoptInWindow(_, _, _)
AdoptInWindow(m, incidents, i) ==
  IF i > Len(incidents) THEN m
  ELSE AdoptInWindow(IF After(incidents[i].created, AddDays(now, 0 - WindowDays))
                       THEN Put(m, incidents[i]) ELSE m,
                     incidents, i + 1)

RECURSIVE Adopt(_, _, _)
Adopt(m, incidents, i) ==
  IF i > Len(incidents) THEN m ELSE Adopt(Put(m, incidents[i]), incidents, i + 1)

InitSections(incidents) ==
  [i \in 1..Len(incidents) |-> [head |-> "active", inc |-> incidents[i]]]

ThreeDaysAgo(t) == AddDays(t, 0 - WindowDays)

\* a window that still holds an incident created exactly three days ago
InWindowInclusive(inc, t) == ~After(ThreeDaysAgo(t), inc.created)

InWindow(inc, t) == After(inc.created, ThreeDaysAgo(t))

\* a comparison of the whole incident
ChangedAnyField(old, inc) == old # inc

Changed(old, inc) == old.updated # inc.updated

\* a classification that takes every stored incident for an updated one
ClassifyStoredAsUpdated(m, inc) ==
  IF inc.id \notin DOMAIN m THEN "new" ELSE "updated"

Classify(m, inc) ==
  IF inc.id \notin DOMAIN m THEN "new"
  ELSE IF Changed(m[inc.id], inc) THEN "updated"
  ELSE "same"

\* a loop after which the store forgets what the list does not name
RECURSIVE DeltaLoopDroppingUnlisted(_, _, _, _, _)
DeltaLoopDroppingUnlisted(m, ch, incidents, i, t) ==
  IF i > Len(incidents)
    THEN [store |-> [k \in DOMAIN m \cap {incidents[j].id : j \in 1..Len(incidents)} |-> m[k]],
          changes |-> ch]
  ELSE LET inc == incidents[i] IN
       IF ~InWindow(inc, t) THEN DeltaLoopDroppingUnlisted(m, ch, incidents, i + 1, t)
       ELSE LET k == Classify(m, inc)
                ch2 == IF k = "same" THEN ch ELSE Append(ch, [head |-> k, inc |-> inc])
            IN DeltaLoopDroppingUnlisted(Put(m, inc), ch2, incidents, i + 1, t)

\* the loop of lines 322-348: the store and the change list after incidents[i..]
RECURSIVE DeltaLoop(_, _, _, _, _)
DeltaLoop(m, ch, incidents, i, t) ==
  IF i > Len(incidents) THEN [store |-> m, changes |-> ch]
  ELSE LET inc == incidents[i] IN
       IF ~InWindow(inc, t) THEN DeltaLoop(m, ch, incidents, i + 1, t)
       ELSE LET k == Classify(m, inc)
                ch2 == IF k = "same" THEN ch ELSE Append(ch, [head |-> k, inc |-> inc])
            IN DeltaLoop(Put(m, inc), ch2, incidents, i + 1, t)

Restrict(m, K) == [k \in K |-> m[k]]

\* a clean-up that never runs
RetentionSkipped(m, max) == {m}

\* a clean-up that sorts oldest first
RetentionOldest(m, max) ==
  IF Cardinality(DOMAIN m) > max
    THEN {Restrict(m, K) : K \in {K \in SUBSET DOMAIN m :
            /\ Cardinality(K) = max
            /\ \A k \in K : \A j \in DOMAIN m \ K : ~After(m[k].created, m[j].created)}}
    ELSE {m}

\* lines 350-369: the stores the clean-up may leave (the sort is not stable
\* and starts from the map's iteration order)
Retention(m, max) ==
  IF Cardinality(DOMAIN m) > max
    THEN {Restrict(m, K) : K \in {K \in SUBSET DOMAIN m :
            /\ Cardinality(K) = max
            /\ \A k \in K : \A j \in DOMAIN m \ K : ~After(m[j].created, m[k].created)}}
    ELSE {m}

----------------------------------------------------------------------------
(* sync.RWMutex *)

Unlocked == [writer |-> FALSE, readers |-> 0]

\* a Lock that does not wait for the readers to leave
CanLockDespiteReaders(mu) == ~mu.writer

CanLock(mu) == ~mu.writer /\ mu.readers = 0
Lock(mu) == [mu EXCEPT !.writer = TRUE]
Unlock(mu) == [mu EXCEPT !.writer = FALSE]
CanRLock(mu) == ~mu.writer
RLock(mu) == [mu EXCEPT !.readers = @ + 1]
RUnlock(mu) == [mu EXCEPT !.readers = @ - 1]

----------------------------------------------------------------------------
(* The service *)

Init ==
  /\ pc = "load"
  /\ boot = TRUE
  /\ config = ZeroConfig
  /\ lastIncidents = << >>
  /\ lastIncidentsIsNil = TRUE
  /\ lastReportTime = ZeroTime
  /\ mutex = Unlocked
  /\ now = 0
  /\ fetched = << >>
  /\ prior = << >>
  /\ changes = << >>
  /\ event = "none"
  /\ inflight = "none"
  /\ digest = {}
  /\ lastSend = "none"
  /\ calls = << >>
  /\ reportedAt = ZeroTime
  /\ file = NoFile

\* main, lines 456-467: the configuration is loaded, or main returns
LoadConfig(files) ==
  /\ pc = "load"
  /\ \E f \in files :
       /\ file' = f
       /\ config' = ParseConfig(f)
       /\ pc' = IF ConfigError(ParseConfig(f)) THEN "exit" ELSE "fetch"
  /\ UNCHANGED <<boot, lastIncidents, lastIncidentsIsNil, lastReportTime, mutex, now,
                 fetched, prior, changes, event, inflight, digest, lastSend, calls, reportedAt>>

\* a failed fetch that drops the snapshot
FetchFailsForgets ==
  /\ pc = "fetch"
  /\ pc' = "returned"
  /\ event' = "fetchFailed"
  /\ lastSend' = "none"
  /\ lastIncidents' = << >>
  /\ lastIncidentsIsNil' = TRUE
  /\ UNCHANGED <<boot, config, lastReportTime, mutex, now, fetched, prior, changes,
                 inflight, digest, calls, reportedAt, file>>

\* http.Get, ioutil.ReadAll or json.Unmarshal fails: checkForChanges is not called
FetchFails ==
  /\ pc = "fetch"
  /\ pc' = "returned"
  /\ event' = "fetchFailed"
  /\ lastSend' = "none"
  /\ UNCHANGED <<boot, config, lastIncidents, lastIncidentsIsNil, lastReportTime, mutex,
                 now, fetched, prior, changes, inflight, digest, calls, reportedAt, file>>

\* checkForChanges on a nil store: lines 281-315, up to the send
CheckInit(incidents) ==
  /\ FirstRun(lastIncidents, lastIncidentsIsNil)
  /\ CanLock(mutex)
  /\ lastIncidentsIsNil' = FALSE
  /\ lastIncidents' = Adopt(<< >>, Truncate(incidents, config.MaxIncidents), 1)
  /\ changes' = InitSections(Truncate(incidents, config.MaxIncidents))
  /\ event' = "init"
  /\ mutex' = Lock(mutex)
  /\ inflight' = "startup"
  /\ pc' = "notify"

\* checkForChanges on an initialized store: lines 317-389, up to the send
CheckDelta(incidents) ==
  /\ ~FirstRun(lastIncidents, lastIncidentsIsNil)
  /\ CanLock(mutex)
  /\ LET r == DeltaLoop(lastIncidents, << >>, Truncate(incidents, config.MaxIncidents), 1, now)
     IN /\ lastIncidents' \in Retention(r.store, config.MaxIncidents)
        /\ changes' = r.changes
        /\ IF Len(r.changes) > 0
             THEN /\ mutex' = Lock(mutex)
                  /\ inflight' = "update"
                  /\ pc' = "notify"
             ELSE /\ mutex' = mutex
                  /\ inflight' = "none"
                  /\ pc' = "returned"
  /\ event' = "delta"
  /\ UNCHANGED lastIncidentsIsNil

\* fetchAndProcessIncidents with a successful fetch: sort, then checkForChanges
FetchOk(responses) ==
  /\ pc = "fetch"
  /\ \E r \in responses : \E s \in SortSlice(r) :
       /\ fetched' = s
       /\ prior' = lastIncidents
       /\ CheckInit(s) \/ CheckDelta(s)
  /\ lastSend' = "none"
  /\ UNCHANGED <<boot, config, lastReportTime, now, digest, calls, reportedAt, file>>

\* a checkForChanges that puts the store back when the send fails
NotifyDoneRollsBack ==
  /\ pc = "notify"
  /\ \E ok \in BOOLEAN :
       /\ lastSend' = IF ok THEN "ok" ELSE "err"
       /\ lastIncidents' = IF ok THEN lastIncidents ELSE prior
       /\ lastIncidentsIsNil' = IF ok THEN lastIncidentsIsNil ELSE (event = "init")
  /\ mutex' = Unlock(mutex)
  /\ inflight' = "none"
  /\ pc' = "returned"
  /\ UNCHANGED <<boot, config, lastReportTime, now, fetched, prior, changes, event,
                 digest, calls, reportedAt, file>>

\* sendDingtalkNotification returns inside checkForChanges; the deferred Unlock runs
NotifyDone ==
  /\ pc = "notify"
  /\ \E ok \in BOOLEAN : lastSend' = IF ok THEN "ok" ELSE "err"
  /\ mutex' = Unlock(mutex)
  /\ inflight' = "none"
  /\ pc' = "returned"
  /\ UNCHANGED <<boot, config, lastIncidents, lastIncidentsIsNil, lastReportTime, now,
                 fetched, prior, changes, event, digest, calls, reportedAt, file>>

\* main, lines 471-480: after the first fetch the ticker loop is entered
EnterLoop ==
  /\ pc = "returned"
  /\ boot
  /\ boot' = FALSE
  /\ pc' = "fetch"
  /\ event' = "none"
  /\ fetched' = << >>
  /\ prior' = << >>
  /\ changes' = << >>
  /\ lastSend' = "none"
  /\ UNCHANGED <<config, lastIncidents, lastIncidentsIsNil, lastReportTime, mutex, now,
                 inflight, digest, calls, reportedAt, file>>

ShouldSendDailyReport(t, last, hour) ==
  /\ IsZero(last) \/ Day(t) # Day(last)
  /\ Hour(t) = hour

\* a report of everything stored
DailyItemsUnfiltered(m, t) == {m[k] : k \in DOMAIN m}

\* sendDailyReport, lines 401-414: the incidents written into the report
DailyItems(m, t) == {m[k] : k \in {k \in DOMAIN m : InWindow(m[k], t)}}

\* main, lines 492-497: the gate, and sendDailyReport up to the send
DailyGate ==
  /\ pc = "returned"
  /\ ~boot
  /\ event' = "none"
  /\ fetched' = << >>
  /\ prior' = << >>
  /\ changes' = << >>
  /\ lastSend' = "none"
  /\ IF ShouldSendDailyReport(now, lastReportTime, config.DailyReportUTCHour)
       THEN /\ CanRLock(mutex)
            /\ mutex' = RLock(mutex)
            /\ digest' = DailyItems(lastIncidents, now)
            /\ inflight' = "daily"
            /\ reportedAt' = now
            /\ pc' = "report"
       ELSE /\ pc' = "fetch"
            /\ UNCHANGED <<mutex, digest, inflight, reportedAt, file>>
  /\ UNCHANGED <<boot, config, lastIncidents, lastIncidentsIsNil, lastReportTime, now, calls,
                 file>>

\* a main that records the time only when the report was sent
RecordedIfSent(last, t, err) == IF err THEN last ELSE t

\* the time main records after sendDailyReport returned with error err (line 495)
Recorded(last, t, err) == t

\* sendDingtalkNotification returns inside sendDailyReport; the deferred RUnlock
\* runs, then main records the time
ReportDone ==
  /\ pc = "report"
  /\ \E ok \in BOOLEAN :
       /\ lastSend' = IF ok THEN "ok" ELSE "err"
       /\ lastReportTime' = Recorded(lastReportTime, now, ~ok)
  /\ mutex' = RUnlock(mutex)
  /\ inflight' = "none"
  /\ digest' = {}
  /\ pc' = "fetch"
  /\ UNCHANGED <<boot, config, lastIncidents, lastIncidentsIsNil, now, fetched, prior,
                 changes, event, calls, reportedAt, file>>

\* the clock advances
Tock(maxT) ==
  /\ pc \notin {"load", "exit"}
  /\ now < maxT
  /\ now' = now + 1
  /\ UNCHANGED <<pc, boot, config, lastIncidents, lastIncidentsIsNil, lastReportTime,
                 mutex, fetched, prior, changes, event, inflight, digest, lastSend, calls, reportedAt, file>>

\* retention runs: more incidents than the store may keep, a short clock
Next ==
  \/ LoadConfig(CapFiles)
  \/ FetchFails
  \/ FetchOk(Responses)
  \/ NotifyDone
  \/ EnterLoop
  \/ DailyGate
  \/ ReportDone
  \/ Tock(MaxTime)

Spec == Init /\ [][Next]_vars

\* field runs: two incidents that vary in every field, a short clock
NextDeep ==
  \/ LoadConfig(CapFiles)
  \/ FetchFails
  \/ FetchOk(DeepResponses)
  \/ NotifyDone
  \/ EnterLoop
  \/ DailyGate
  \/ ReportDone
  \/ Tock(MaxTime)

SpecDeep == Init /\ [][NextDeep]_vars

\* calendar runs: every report hour, a clock that passes a full month
NextDay ==
  \/ LoadConfig(HourFiles)
  \/ FetchFails
  \/ FetchOk(DayResponses)
  \/ NotifyDone
  \/ EnterLoop
  \/ DailyGate
  \/ ReportDone
  \/ Tock(MonthLater + MaxOver)

SpecDay == Init /\ [][NextDay]_vars

\* configuration runs: every kind of file, one incident, a short clock
NextConfig ==
  \/ LoadConfig(AnyFiles)
  \/ FetchFails
  \/ FetchOk(DayResponses)
  \/ NotifyDone
  \/ EnterLoop
  \/ DailyGate
  \/ ReportDone
  \/ Tock(MaxTime)

SpecConfig == Init /\ [][NextConfig]_vars

----------------------------------------------------------------------------
(* The methods of the Service called from several goroutines.  main() calls *)
(* them one after the other; the mutex is what the Service relies on when  *)
(* they are called concurrently.  A call of checkForChanges is taken step   *)
(* by step, one map write at a time.                                        *)

\* the number of goroutines
NumCallers == 3
Callers == 1..NumCallers

\* a file with MAX_INCIDENTS=1
ConcFile == File(Number(5), Number(0), Number(1), "token", "secret")

\* two incidents that are in the window at hour 0
ConcResponses ==
  ResponsesOver(IncidentsOver(1..2, {AddDays(0, 0 - WindowDays) + 1}, UpdatedVals,
                              {"investigating"}), 2)

\* at: "idle", "Lock", "adopt", "upsert", "retain", "send", "RLock", "read", "report"
Idle == [at |-> "idle", list |-> << >>, i |-> 0, seen |-> << >>]

Writing(c) == c.at \in {"adopt", "upsert", "retain", "send"}
Reading(c) == c.at \in {"read", "report"}

InitConc ==
  /\ pc = "serve"
  /\ boot = FALSE
  /\ config = ParseConfig(ConcFile)
  /\ lastIncidents = << >>
  /\ lastIncidentsIsNil = TRUE
  /\ lastReportTime = ZeroTime
  /\ mutex = Unlocked
  /\ now = 0
  /\ fetched = << >>
  /\ prior = << >>
  /\ changes = << >>
  /\ event = "none"
  /\ inflight = "none"
  /\ digest = {}
  /\ lastSend = "none"
  /\ calls = [g \in Callers |-> Idle]
  /\ reportedAt = ZeroTime
  /\ file = ConcFile

\* the variables of main() that the calls do not touch
mainVars == <<pc, boot, config, lastReportTime, now, fetched, prior, changes, event,
              inflight, digest, lastSend, reportedAt, file>>

\* a goroutine calls checkForChanges and blocks in s.mutex.Lock() (line 268)
CallCheck(g) ==
  /\ calls[g].at = "idle"
  /\ calls' = [calls EXCEPT ![g].at = "Lock"]
  /\ UNCHANGED <<mainVars, lastIncidents, lastIncidentsIsNil, mutex>>

\* Lock() returns; lines 273-283: the truncation, and make(map) on a nil store
CheckLocked(g, responses) ==
  /\ calls[g].at = "Lock"
  /\ CanLock(mutex)
  /\ mutex' = Lock(mutex)
  /\ \E r \in responses : \E s \in SortSlice(r) :
       calls' = [calls EXCEPT ![g] =
                   [at |-> IF FirstRun(lastIncidents, lastIncidentsIsNil)
                             THEN "adopt" ELSE "upsert",
                    list |-> Truncate(s, config.MaxIncidents), i |-> 1, seen |-> << >>]]
  /\ lastIncidentsIsNil' = FALSE
  /\ UNCHANGED <<mainVars, lastIncidents>>

\* one iteration of the loop of lines 296-301, or its end
AdoptStep(g) ==
  /\ calls[g].at = "adopt"
  /\ LET c == calls[g] IN
       IF c.i <= Len(c.list)
         THEN /\ lastIncidents' = Put(lastIncidents, c.list[c.i])
              /\ calls' = [calls EXCEPT ![g].i = c.i + 1]
         ELSE /\ lastIncidents' = lastIncidents
              /\ calls' = [calls EXCEPT ![g].at = "send"]
  /\ UNCHANGED <<mainVars, lastIncidentsIsNil, mutex>>

\* one iteration of the loop of lines 322-348, or its end
UpsertStep(g) ==
  /\ calls[g].at = "upsert"
  /\ LET c == calls[g] IN
       IF c.i <= Len(c.list)
         THEN /\ lastIncidents' = DeltaLoop(lastIncidents, << >>, <<c.list[c.i]>>, 1, now).store
              /\ calls' = [calls EXCEPT ![g].i = c.i + 1]
         ELSE /\ lastIncidents' = lastIncidents
              /\ calls' = [calls EXCEPT ![g].at = "retain"]
  /\ UNCHANGED <<mainVars, lastIncidentsIsNil, mutex>>

\* lines 350-369: the clean-up
RetainStep(g) ==
  /\ calls[g].at = "retain"
  /\ lastIncidents' \in Retention(lastIncidents, config.MaxIncidents)
  /\ calls' = [calls EXCEPT ![g].at = "send"]
  /\ UNCHANGED <<mainVars, lastIncidentsIsNil, mutex>>

\* the notification, if any, was sent; checkForChanges returns and the
\* deferred Unlock runs
CheckReturns(g) ==
  /\ calls[g].at = "send"
  /\ mutex' = Unlock(mutex)
  /\ calls' = [calls EXCEPT ![g] = Idle]
  /\ UNCHANGED <<mainVars, lastIncidents, lastIncidentsIsNil>>

\* a goroutine calls sendDailyReport and blocks in s.mutex.RLock() (line 392)
CallReport(g) ==
  /\ calls[g].at = "idle"
  /\ calls' = [calls EXCEPT ![g].at = "RLock"]
  /\ UNCHANGED <<mainVars, lastIncidents, lastIncidentsIsNil, mutex>>

ReportLocked(g) ==
  /\ calls[g].at = "RLock"
  /\ CanRLock(mutex)
  /\ mutex' = RLock(mutex)
  /\ calls' = [calls EXCEPT ![g].at = "read"]
  /\ UNCHANGED <<mainVars, lastIncidents, lastIncidentsIsNil>>

\* lines 406-413: the range over the store
ReportReads(g) ==
  /\ calls[g].at = "read"
  /\ calls' = [calls EXCEPT ![g].at = "report", ![g].seen = lastIncidents]
  /\ UNCHANGED <<mainVars, lastIncidents, lastIncidentsIsNil, mutex>>

\* the report was sent; sendDailyReport returns and the deferred RUnlock runs
ReportReturns(g) ==
  /\ calls[g].at = "report"
  /\ mutex' = RUnlock(mutex)
  /\ calls' = [calls EXCEPT ![g] = Idle]
  /\ UNCHANGED <<mainVars, lastIncidents, lastIncidentsIsNil>>

NextConc ==
  \E g \in Callers :
    \/ CallCheck(g)
    \/ CheckLocked(g, ConcResponses)
    \/ AdoptStep(g)
    \/ UpsertStep(g)
    \/ RetainStep(g)
    \/ CheckReturns(g)
    \/ CallReport(g)
    \/ ReportLocked(g)
    \/ ReportReads(g)
    \/ ReportReturns(g)

SpecConc == InitConc /\ [][NextConc]_vars

----------------------------------------------------------------------------
(* Properties.  A step of checkForChanges is a step out of "fetch" that sets *)
(* event; in such a step the unprimed variables are the state the call      *)
(* found and now is the time.Now() it read.                                 *)

ReconcileStep == pc = "fetch" /\ event' \in {"init", "delta"}
DeltaStep == pc = "fetch" /\ event' = "delta"

Listed(ch, id) == \E j \in DOMAIN ch : ch[j].inc.id = id
Section(ch, h, inc) == \E j \in DOMAIN ch : ch[j] = [head |-> h, inc |-> inc]

\* createdAt strictly after t - 3 days
Active(inc, t) == inc.created > t - WindowDays * HoursPerDay

\* the identifiers a delta pass upserts: the in-window incidents of the prefix
UpsertedAt(list, max, t) ==
  {list[i] : i \in {i \in 1..Len(list) : i <= max /\ Active(list[i], t)}}

IdsOf(incs) == {inc.id : inc \in incs}

\* C1: once a checkForChanges call has run, on the initializing path as on
\* the delta path, lastIncidents holds at most MaxIncidents entries.
C1_StoreWithinMax ==
  pc \notin {"load", "exit"} => Cardinality(DOMAIN lastIncidents) <= config.MaxIncidents

\* a delta call found a full store, classified an incident New and left a full store
C1_Witness ==
  /\ event = "delta"
  /\ Cardinality(DOMAIN prior) = config.MaxIncidents
  /\ \E j \in DOMAIN changes : changes[j].head = "new"
  /\ Cardinality(DOMAIN lastIncidents) = config.MaxIncidents

\* C2: feeding the list of the call that just returned to checkForChanges
\* again, now or at any later hour, yields an empty change list (and so no
\* notification).
C2_Original ==
  (pc = "returned" /\ event \in {"init", "delta"}) =>
    DeltaLoop(lastIncidents, << >>, Truncate(fetched, config.MaxIncidents), 1, now).changes
      = << >>

\* C3: when the send of the daily report fails, lastReportTime keeps its value.
C3_Original ==
  [][(pc = "report" /\ pc' = "fetch" /\ lastSend' = "err")
       => lastReportTime' = lastReportTime]_vars

\* C4: at the gate of a tick the daily report is sent exactly when the hour is
\* the configured hour and no report was ever sent or the last one was sent
\* on another calendar date.
C4_Original ==
  [][(pc = "returned" /\ ~boot /\ pc' # "returned") =>
       ((pc' = "report") <=>
          /\ Hour(now) = config.DailyReportUTCHour
          /\ IsZero(lastReportTime) \/ Date(now) # Date(lastReportTime))]_vars

\* C5: in a delta pass an in-window incident of the prefix is New when its
\* identifier is not stored, Updated when the stored UpdatedAt differs, and
\* otherwise not in the change list, whatever its other fields.
C5_TimestampClassification ==
  [][DeltaStep =>
       \A inc \in UpsertedAt(fetched', config.MaxIncidents, now) :
         IF inc.id \notin DOMAIN lastIncidents
           THEN Section(changes', "new", inc)
           ELSE IF lastIncidents[inc.id].updated # inc.updated
             THEN Section(changes', "updated", inc)
             ELSE ~Listed(changes', inc.id)]_vars

\* a delta call met a stored incident with the same UpdatedAt and another
\* Status, wrote it to the store and left it out of the change list
C5_Witness ==
  /\ event = "delta"
  /\ \E i \in 1..Len(fetched) :
       LET inc == fetched[i] IN
         /\ inc.id \in DOMAIN prior
         /\ prior[inc.id].updated = inc.updated
         /\ prior[inc.id].status # inc.status
         /\ inc.id \in DOMAIN lastIncidents
         /\ lastIncidents[inc.id] = inc
         /\ ~Listed(changes, inc.id)

\* C6 as claimed: in a delta pass a fetched incident created at or before
\* now - 3 days is not in the change list, its stored entry is left exactly
\* as it was, and when none is stored none is inserted.
C6_Original ==
  [][DeltaStep =>
       \A i \in 1..Len(fetched') :
         LET inc == fetched'[i] IN
           ~Active(inc, now) =>
             /\ ~Listed(changes', inc.id)
             /\ IF inc.id \in DOMAIN lastIncidents
                  THEN /\ inc.id \in DOMAIN lastIncidents'
                       /\ lastIncidents'[inc.id] = lastIncidents[inc.id]
                  ELSE inc.id \notin DOMAIN lastIncidents']_vars

\* C6 as amended: in a delta pass a fetched incident created at or before
\* now - 3 days is not in the change list and is not written to the store:
\* when none is stored none is inserted, and a stored entry is never
\* overwritten; it stays exactly as it was unless the clean-up of the same
\* pass, run because the store exceeded MaxIncidents, evicts it.
C6_WindowExclusion ==
  [][DeltaStep =>
       \A i \in 1..Len(fetched') :
         LET inc == fetched'[i] IN
           ~Active(inc, now) =>
             /\ ~Listed(changes', inc.id)
             /\ IF inc.id \in DOMAIN lastIncidents
                  THEN IF inc.id \in DOMAIN lastIncidents'
                         THEN lastIncidents'[inc.id] = lastIncidents[inc.id]
                         ELSE Cardinality(DOMAIN lastIncidents
                                \cup IdsOf(UpsertedAt(fetched', config.MaxIncidents, now)))
                                > config.MaxIncidents
                  ELSE inc.id \notin DOMAIN lastIncidents']_vars

\* a delta call met, within the prefix, an incident created exactly three days
\* ago whose stored entry differs, and left the stored entry as it was
C6_Witness ==
  /\ event = "delta"
  /\ \E i \in 1..Len(fetched) :
       LET inc == fetched[i] IN
         /\ i <= config.MaxIncidents
         /\ inc.created = now - WindowDays * HoursPerDay
         /\ inc.id \in DOMAIN prior
         /\ prior[inc.id] # inc
         /\ inc.id \in DOMAIN lastIncidents
         /\ lastIncidents[inc.id] = prior[inc.id]

\* C7: the store never becomes nil again, and a checkForChanges call is the
\* initializing one exactly when it finds the store nil; it leaves it non-nil.
C7_InitOnce ==
  [][/\ ~lastIncidentsIsNil => ~lastIncidentsIsNil'
     /\ ReconcileStep =>
          /\ (event' = "init") <=> lastIncidentsIsNil
          /\ ~lastIncidentsIsNil']_vars

\* a delta call ran on a store that was initialized from an empty list
C7_Witness ==
  /\ event = "delta"
  /\ ~lastIncidentsIsNil
  /\ prior = << >>
  /\ Len(fetched) > 0

\* C8: when the store exceeds MaxIncidents after the upserts of a pass, the
\* clean-up keeps exactly MaxIncidents of its entries, unchanged, and none of
\* them was created before a discarded one.
C8_RetentionKeepsNewest ==
  [][DeltaStep =>
       LET max == config.MaxIncidents
           ups == UpsertedAt(fetched', max, now)
           all == DOMAIN lastIncidents \cup IdsOf(ups)
           Pre(k) == IF k \in IdsOf(ups) THEN CHOOSE u \in ups : u.id = k
                                         ELSE lastIncidents[k]
           kept == DOMAIN lastIncidents'
       IN Cardinality(all) > max =>
            /\ kept \subseteq all
            /\ Cardinality(kept) = max
            /\ \A k \in kept : lastIncidents'[k] = Pre(k)
            /\ \A k \in kept : \A j \in all \ kept : Pre(k).created >= Pre(j).created]_vars

\* a delta call evicted a stored incident that the list did not name, and
\* every incident it kept is newer
C8_Witness ==
  /\ event = "delta"
  /\ \E k \in DOMAIN prior \ DOMAIN lastIncidents :
       /\ k \notin IdsOf(Range(fetched))
       /\ \A j \in DOMAIN lastIncidents : lastIncidents[j].created > prior[k].created

\* C9: an incident of the fetched list behind its first MaxIncidents entries is
\* not in the change list or the notification and is not written to the
\* store, on the initializing path and on the delta path.
C9_TruncationBeforeDiff ==
  [][ReconcileStep =>
       \A i \in 1..Len(fetched') :
         i > config.MaxIncidents =>
           LET inc == fetched'[i] IN
             /\ ~Listed(changes', inc.id)
             /\ inc.id \in DOMAIN lastIncidents' =>
                  /\ inc.id \in DOMAIN lastIncidents
                  /\ lastIncidents'[inc.id] = lastIncidents[inc.id]]_vars

\* a delta call got a list longer than MaxIncidents whose tail held an
\* in-window incident that is not stored
C9_Witness ==
  /\ event = "delta"
  /\ \E i \in 1..Len(fetched) :
       /\ i > config.MaxIncidents
       /\ Active(fetched[i], now)
       /\ fetched[i].id \notin DOMAIN prior
       /\ fetched[i].id \notin DOMAIN lastIncidents

\* C10: the store lock is never held while a notification is being sent.
C10_Original ==
  inflight = "none" \/ (~mutex.writer /\ mutex.readers = 0)

\* C11: a checkForChanges call between Lock and Unlock runs alone: no other
\* call of checkForChanges and no sendDailyReport is between its lock and
\* unlock; and the store a sendDailyReport ranges over is not one a pass is
\* working on: it never holds more than MaxIncidents entries.
C11_ReadersWriter ==
  /\ \A g, h \in Callers :
       (Writing(calls[g]) /\ g # h) => ~Writing(calls[h]) /\ ~Reading(calls[h])
  /\ \A g \in Callers :
       calls[g].at = "report" =>
         /\ Cardinality(DOMAIN calls[g].seen) <= config.MaxIncidents
         /\ calls[g].seen = lastIncidents

\* two sendDailyReport calls hold the read lock together, on a store that a
\* pass has filled, while a checkForChanges call waits in Lock()
C11_Witness ==
  \E g, h, w \in Callers :
    /\ g # h
    /\ Reading(calls[g]) /\ Reading(calls[h])
    /\ calls[w].at = "Lock"
    /\ Cardinality(DOMAIN lastIncidents) = config.MaxIncidents

\* C12: a fetch that fails returns to main, which goes on; checkForChanges is
\* not called: the store and whether it is nil, the lock and the time of the
\* last report are as before, no change list is built and no notification
\* is being sent.
C12_FailedFetchSkips ==
  [][(pc = "fetch" /\ event' = "fetchFailed") =>
       /\ pc' = "returned"
       /\ lastIncidents' = lastIncidents
       /\ lastIncidentsIsNil' = lastIncidentsIsNil
       /\ UNCHANGED <<config, mutex, lastReportTime, boot>>
       /\ changes' = << >>
       /\ inflight' = "none"]_vars

\* a fetch of the ticker loop failed on a store that holds an incident
C12_Witness ==
  /\ event = "fetchFailed"
  /\ pc = "returned"
  /\ ~boot
  /\ ~lastIncidentsIsNil
  /\ DOMAIN lastIncidents # {}

\* C13: sendDailyReport is never called twice on the same calendar date: when
\* it is called, it was never called before or its last call was on
\* another date (the clock never runs backwards, so that date is an earlier
\* one and every call before it was on a still earlier date).
C13_OncePerDate ==
  [][(pc = "returned" /\ pc' = "report") =>
       \/ IsZero(reportedAt)
       \/ Date(reportedAt) < Date(now)]_vars

\* a second report is being sent, on a later date than the first
C13_Witness ==
  /\ pc = "report"
  /\ ~IsZero(lastReportTime)
  /\ Date(lastReportTime) < Date(reportedAt)

\* C14: the call that finds the store nil stores every incident of the first
\* MaxIncidents of the list, as fetched and whatever its creation time, and
\* nothing else; it sends the start-up notification, with one section per
\* stored incident in list order; on an empty list the store becomes empty
\* and not nil and the notification is sent without a section (it then
\* carries the sentence of line 302 instead).
C14_InitAdoptsAll ==
  [][(pc = "fetch" /\ event' = "init") =>
       LET n == IF Len(fetched') > config.MaxIncidents
                  THEN config.MaxIncidents ELSE Len(fetched')
       IN /\ ~lastIncidentsIsNil'
          /\ DOMAIN lastIncidents' = {fetched'[i].id : i \in 1..n}
          /\ \A i \in 1..n : lastIncidents'[fetched'[i].id] = fetched'[i]
          /\ Len(changes') = n
          /\ \A i \in 1..n : changes'[i] = [head |-> "active", inc |-> fetched'[i]]
          /\ inflight' = "startup"
          /\ pc' = "notify"]_vars

\* the store was initialized after a daily report had been sent, hence at
\* hour 1 or later, and it adopted an incident created three days before
\* hour 1, as the start-up notification lists it
C14_Witness ==
  /\ event = "init"
  /\ ~IsZero(lastReportTime)
  /\ \E k \in DOMAIN lastIncidents :
       /\ lastIncidents[k].created = AddDays(1, 0 - WindowDays)
       /\ Section(changes, "active", lastIncidents[k])

\* the store was initialized from an empty list
C14_EmptyInit ==
  /\ event = "init"
  /\ pc = "notify"
  /\ inflight = "startup"
  /\ ~lastIncidentsIsNil
  /\ lastIncidents = << >>
  /\ changes = << >>

\* the position of an incident in a list
Pos(list, inc) == CHOOSE i \in 1..Len(list) : list[i] = inc

\* C15: a call on an initialized store sends the update notification exactly
\* when, among the first MaxIncidents incidents of the list, one created in
\* the last three days is not stored or is stored with another UpdatedAt;
\* the notification has one section for each such incident, in list order,
\* and no other section; with none, nothing is sent and the call returns.
C15_NotifyIffChanges ==
  [][DeltaStep =>
       LET n == IF Len(fetched') > config.MaxIncidents
                  THEN config.MaxIncidents ELSE Len(fetched')
           IsChange(i) ==
             /\ Active(fetched'[i], now)
             /\ \/ fetched'[i].id \notin DOMAIN lastIncidents
                \/ lastIncidents[fetched'[i].id].updated # fetched'[i].updated
           idx == {i \in 1..n : IsChange(i)}
       IN /\ (inflight' = "update") <=> (idx # {})
          /\ (pc' = "notify") <=> (idx # {})
          /\ idx = {} => pc' = "returned" /\ inflight' = "none"
          /\ Len(changes') = Cardinality(idx)
          /\ {changes'[j].inc : j \in DOMAIN changes'} = {fetched'[i] : i \in idx}
          /\ \A j, k \in DOMAIN changes' :
               j < k => Pos(fetched', changes'[j].inc) < Pos(fetched', changes'[k].inc)
          /\ \A j \in DOMAIN changes' :
               changes'[j].head = IF changes'[j].inc.id \in DOMAIN lastIncidents
                                    THEN "updated" ELSE "new"]_vars

\* a call on an initialized store got two incidents of the last three days,
\* the first stored with the same UpdatedAt and the second with another one,
\* and is sending a notification with one section, for the second
C15_Witness ==
  /\ event = "delta"
  /\ inflight = "update"
  /\ config.MaxIncidents = 2
  /\ Len(fetched) = 2
  /\ \A i \in 1..2 : Active(fetched[i], now) /\ fetched[i].id \in DOMAIN prior
  /\ prior[fetched[1].id].updated = fetched[1].updated
  /\ prior[fetched[2].id].updated # fetched[2].updated
  /\ changes = <<[head |-> "updated", inc |-> fetched[2]]>>

\* a line that sets a numeric option to a positive number
SetPositive(v) == v.kind = "int" /\ v.n > 0

\* a line that sets a numeric option to an hour of the (scaled) day
SetHour(v) == v.kind = "int" /\ v.n \in 0..(HoursPerDay - 1)

\* every one of the five options is set to a valid value
AllSet(f) ==
  /\ SetPositive(f.interval)
  /\ SetHour(f.hour)
  /\ SetPositive(f.max)
  /\ f.token # ""
  /\ f.secret # ""

\* C16: main gets past loadConfig only with a file that sets every one of
\* the five options to a valid value; after an error of loadConfig main has
\* returned: nothing was fetched, nothing is sent, the loop is not entered.
C16_Original ==
  /\ pc \notin {"load", "exit"} => AllSet(file)
  /\ pc = "exit" =>
       /\ ~AllSet(file)
       /\ lastIncidentsIsNil /\ event = "none" /\ inflight = "none" /\ boot

\* what loadConfig does check: the file is refused exactly when the
\* interval or MAX_INCIDENTS is not set to a positive number, a secret or token
\* is empty, or DAILY_REPORT_UTC_HOUR is set to a number that is no hour of
\* the day; a file without a readable DAILY_REPORT_UTC_HOUR is taken, with hour 0
C16_AsChecked ==
  /\ pc \notin {"load", "exit"} =>
       /\ AllSet([file EXCEPT !.hour = Number(config.DailyReportUTCHour)])
       /\ file.hour.kind = "int" => file.hour.n = config.DailyReportUTCHour
       /\ file.hour.kind # "int" => config.DailyReportUTCHour = 0
  /\ pc = "exit" =>
       /\ ~AllSet(file)
       /\ file.hour.kind = "int" \/ ~AllSet([file EXCEPT !.hour = Number(0)])
       /\ lastIncidentsIsNil /\ event = "none" /\ inflight = "none" /\ boot

\* C17: a delta pass writes every in-window incident of the first
\* MaxIncidents of the list to the store as fetched, whether it is absent,
\* stored with another UpdatedAt or stored with the same one: after the pass
\* its entry is the fetched incident, field for field, unless the clean-up
\* of the same pass (the store exceeded MaxIncidents after the writes) has
\* discarded it; an incident stored with the same UpdatedAt is written and
\* is not in the change list.
C17_UpsertInFull ==
  [][DeltaStep =>
       LET ups == UpsertedAt(fetched', config.MaxIncidents, now) IN
         \A inc \in ups :
           /\ IF inc.id \in DOMAIN lastIncidents'
                THEN lastIncidents'[inc.id] = inc
                ELSE Cardinality(DOMAIN lastIncidents \cup IdsOf(ups)) > config.MaxIncidents
           /\ (inc.id \in DOMAIN lastIncidents
                 /\ lastIncidents[inc.id].updated = inc.updated)
                => ~Listed(changes', inc.id)]_vars

\* a delta call with room for both incidents met one stored with another
\* UpdatedAt and one stored with the same UpdatedAt, another status and
\* another creation time; the store now holds both as fetched, and only the
\* first is in the change list
C17_Witness ==
  /\ event = "delta"
  /\ config.MaxIncidents = 2
  /\ \E i, j \in 1..Len(fetched) :
       LET a == fetched[i]
           b == fetched[j]
       IN /\ a.id \in DOMAIN prior /\ b.id \in DOMAIN prior
          /\ prior[a.id].updated # a.updated
          /\ prior[b.id].updated = b.updated
          /\ prior[b.id].status # b.status
          /\ prior[b.id].created # b.created
          /\ lastIncidents = (a.id :> a) @@ (b.id :> b)
          /\ Listed(changes, a.id)
          /\ ~Listed(changes, b.id)

\* C18: a delta pass removes an entry from the store only when the stored
\* identifiers together with the written ones are more than MaxIncidents:
\* otherwise the store after the pass holds every entry it held, those the
\* pass did not write unchanged, and the written ones; in particular an
\* entry whose identifier is not in the fetched list is still there,
\* unchanged.
C18_EvictionByCountOnly ==
  [][DeltaStep =>
       LET ups == UpsertedAt(fetched', config.MaxIncidents, now)
           all == DOMAIN lastIncidents \cup IdsOf(ups)
       IN Cardinality(all) <= config.MaxIncidents =>
            /\ DOMAIN lastIncidents' = all
            /\ \A k \in DOMAIN lastIncidents \ IdsOf(ups) :
                 lastIncidents'[k] = lastIncidents[k]
            /\ \A k \in DOMAIN lastIncidents \ IdsOf(Range(fetched')) :
                 /\ k \in DOMAIN lastIncidents'
                 /\ lastIncidents'[k] = lastIncidents[k]]_vars

\* a delta call on a store of two incidents got a list that names one of
\* them only; the store still holds both, the one not named as it was
C18_Witness ==
  /\ event = "delta"
  /\ Cardinality(DOMAIN prior) = 2
  /\ Len(fetched) = 1
  /\ fetched[1].id \in DOMAIN prior
  /\ DOMAIN lastIncidents = DOMAIN prior
  /\ lastIncidents[fetched[1].id] = fetched[1]
  /\ \E k \in DOMAIN prior :
       k # fetched[1].id /\ lastIncidents[k] = prior[k]

\* a delta call on a store that holds an incident got an empty list and left
\* the store as it was
C18_EmptyList ==
  /\ event = "delta"
  /\ fetched = << >>
  /\ prior # << >>
  /\ lastIncidents = prior

\* C19: sendDailyReport writes into the report exactly the stored incidents
\* created strictly after now - 3 days (none on a nil store; with none the
\* report carries the sentence of line 420 instead), and from its call to
\* its return the store and whether it is nil stay as they are.
C19_DigestReadOnly ==
  [][/\ (pc = "returned" /\ pc' = "report") =>
          /\ digest' = {lastIncidents[k] : k \in {k \in DOMAIN lastIncidents :
                           lastIncidents[k].created > now - WindowDays * HoursPerDay}}
          /\ lastIncidentsIsNil => digest' = {}
          /\ inflight' = "daily"
          /\ lastIncidents' = lastIncidents
          /\ lastIncidentsIsNil' = lastIncidentsIsNil
     /\ pc = "report" =>
          /\ lastIncidents' = lastIncidents
          /\ lastIncidentsIsNil' = lastIncidentsIsNil]_vars

\* a report is being sent that holds one stored incident and leaves out
\* another, created exactly three days before
C19_Witness ==
  /\ pc = "report"
  /\ now = reportedAt
  /\ \E j, k \in DOMAIN lastIncidents :
       /\ lastIncidents[j] \in digest
       /\ lastIncidents[k] \notin digest
       /\ lastIncidents[k].created = AddDays(now, 0 - WindowDays)

\* a report was sent on a nil store, and a later fetch initialized the store
C19_DigestBeforeInit ==
  /\ event = "init"
  /\ ~IsZero(reportedAt)
  /\ pc = "notify"
  /\ inflight = "startup"

\* after a failed send of checkForChanges: the store is not nil, and handing
\* the same list to checkForChanges again, at this hour, puts no incident of
\* the failed notification that is still stored into the change list
AfterFailedSend ==
  (pc = "returned" /\ lastSend = "err" /\ event \in {"init", "delta"}) =>
    /\ ~lastIncidentsIsNil
    /\ LET again == DeltaLoop(lastIncidents, << >>,
                              Truncate(fetched, config.MaxIncidents), 1, now).changes
       IN \A j \in DOMAIN changes :
            changes[j].inc.id \in DOMAIN lastIncidents =>
              /\ lastIncidents[changes[j].inc.id] = changes[j].inc
              /\ ~Listed(again, changes[j].inc.id)

\* C20: the return of the send inside checkForChanges, with or without an
\* error, leaves the store and whether it is nil as the pass set them; and
\* when the send has failed, then until the next tick the store is not nil
\* and reconciling the same list again would send nothing for an incident of
\* the failed notification, unless the clean-up has discarded it.
C20_NoRetry ==
  [][/\ pc = "notify" =>
          /\ lastIncidents' = lastIncidents
          /\ lastIncidentsIsNil' = lastIncidentsIsNil
     /\ AfterFailedSend']_vars

\* the send of an update notification failed; every incident it named is
\* stored, an hour has passed since
C20_Witness ==
  /\ pc = "returned"
  /\ lastSend = "err"
  /\ event = "delta"
  /\ changes # << >>
  /\ \A j \in DOMAIN changes : changes[j].inc.id \in DOMAIN lastIncidents
  /\ \E j \in DOMAIN changes : changes[j].inc.created = AddDays(now, 0 - WindowDays)

\* the send of the start-up notification failed
C20_FailedStartup ==
  /\ pc = "returned"
  /\ lastSend = "err"
  /\ event = "init"
  /\ changes # << >>
  /\ ~lastIncidentsIsNil

====
